---- MODULE Spec2Model ----
(***************************************************************************)
(* MAP-Elites archive engine (src/map_elites/mapelites.py).                *)
(*                                                                         *)
(* The archive is the pair of dense arrays `performances` and `solutions`, *)
(* indexed by tuples of bin indices.  place_in_mapelites is the only       *)
(* writer; random_selection reads it with a rejection-sampling loop.       *)
(*                                                                         *)
(* Floats are modelled as integers; np.inf is the integer `inf`, larger    *)
(* than every finite value of the model, so that Python's <, >= and ==     *)
(* on the values used here coincide with the integer ones.                 *)
(*                                                                         *)
(* performance_measure, map_x_to_b and generate_random_solution are        *)
(* abstract in MapElites: what they return for a genotype is an input of   *)
(* the placement, drawn from bounded sets.                                 *)
(***************************************************************************)
EXTENDS Integers, Sequences, FiniteSets, TLC

\* ---------------------------------------------------------------- bounds
\* finite performances are 0..MaxPerf
MaxPerf == 2
\* number of place_in_mapelites calls explored
MaxPlacements == 3
\* largest `individuals` argument of random_selection explored
MaxIndividuals == 3
MaxBootstrap == 2
MaxIterations == 2
MaxRuns == 2
MaxDimensions == 3
MaxRunDirs == 2

\* ------------------------------------------------------- program values
\* np.inf
inf == 1000

\* len(ft.bins) - 1 for each feature dimension
ft_bins == <<2, 2>>

\* length of a genotype
optimization_function_dimensions == 2

\* index tuples of an array of the given shape
CellsOf(shape) ==
    LET widest == CHOOSE m \in {shape[d] : d \in 1..Len(shape)} :
                      \A d \in 1..Len(shape) : shape[d] <= m
    IN {c \in [1..Len(shape) -> 0..(widest - 1)] :
            \A d \in 1..Len(shape) : c[d] < shape[d]}

Cells == CellsOf(ft_bins)

\* the finite genotypes generation and variation produce in this model
FiniteGenotypes == {<<0, 1>>, <<1, 0>>}

FinitePerfs == 0..MaxPerf

\* what performance_measure may return: a finite float or +inf
Perfs == FinitePerfs \cup {inf}

Abs(v) == IF v < 0 THEN -v ELSE v

\* ------------------------------------------------------------ __init__
\* mutant: the genotype array allocated with zeros
init_solutions_zeros ==
    [c \in Cells |-> [i \in 1..optimization_function_dimensions |-> 0]]

\* np.full(ft_bins, (np.inf,) * optimization_function_dimensions)
init_solutions ==
    [c \in Cells |-> [i \in 1..optimization_function_dimensions |-> inf]]

\* np.full(ft_bins, np.inf)
init_performances == [c \in Cells |-> inf]

\* mutant: minimization with operator.le
place_operator_le(min, perf, current) ==
    IF min THEN perf <= current ELSE perf >= current

\* mutant: maximization with operator.gt
place_operator_gt(min, perf, current) ==
    IF min THEN perf < current ELSE perf > current

\* mutant: the two branches of `if self.minimization` exchanged
place_operator_swapped(min, perf, current) ==
    IF min THEN perf >= current ELSE perf < current

\* operator.lt under minimization, operator.ge under maximization
place_operator(min, perf, current) ==
    IF min THEN perf < current ELSE perf >= current

\* -------------------------------------------------- place_in_mapelites
\* mutant: a rejected challenger clears the cell's performance
placed_performances_reset(P, min, b, perf) ==
    IF place_operator(min, perf, P[b])
    THEN [P EXCEPT ![b] = perf]
    ELSE [P EXCEPT ![b] = inf]

\* self.performances after place_in_mapelites(x) with b = map_x_to_b(x),
\* perf = performance_measure(x)
placed_performances(P, min, b, perf) ==
    IF place_operator(min, perf, P[b]) THEN [P EXCEPT ![b] = perf] ELSE P

\* mutant: self.solutions[b] = x outside the `if`
placed_solutions_always(S, P, min, b, x, perf) ==
    [S EXCEPT ![b] = x]

\* self.solutions after the same call
placed_solutions(S, P, min, b, x, perf) ==
    IF place_operator(min, perf, P[b]) THEN [S EXCEPT ![b] = x] ELSE S

\* mutant: self.solutions[b] = x moved before performance_measure(x)
unplaced_solutions_early(S, stage, b, x) ==
    IF stage = "performance_measure" THEN [S EXCEPT ![b] = x] ELSE S

\* self.solutions when the call is left by an exception of map_x_to_b or
\* performance_measure: both calls precede every assignment
unplaced_solutions(S, stage, b, x) == S

\* ---------------------------------------------------- random_selection
\* mutant: np.random.randint(0, len(ft.bins) - 2), the last bin never drawn
get_random_index_short ==
    {c \in CellsOf(ft_bins) : \A d \in 1..Len(ft_bins) : c[d] < ft_bins[d] - 1}

\* _get_random_index: one np.random.randint(0, len(ft.bins) - 1) per
\* feature dimension; the set of tuples it can return
get_random_index == CellsOf(ft_bins)

\* any([x == np.nan or np.abs(x) == np.inf for x in self.solutions[index]]);
\* x == np.nan is False for every float
is_not_initialized(S, index) ==
    \E i \in DOMAIN S[index] : FALSE \/ Abs(S[index][i]) = inf

\* mutant: the loop condition without `idx in idxs`
resample_no_repeat_check(S, chosen, index) ==
    is_not_initialized(S, index)

\* the condition of `while idx in idxs or _is_not_initialized(idx)`
resample(S, chosen, index) ==
    (\E j \in DOMAIN chosen : chosen[j] = index) \/ is_not_initialized(S, index)

\* ------------------------------------------ get_most_promising_solution
\* slice(None) in an index tuple
slice == -1

\* self.performances.shape
ShapeOf(P) ==
    LET any == CHOOSE c \in DOMAIN P : TRUE
    IN [d \in 1..Len(any) |-> 1 + (CHOOSE m \in {c[d] : c \in DOMAIN P} :
                                       \A c \in DOMAIN P : c[d] <= m)]

\* _make_index(num_dimension, slice_positions): zeros, with slice(None) at
\* the (0-based) slice positions
make_index(num_dimension, slice_positions) ==
    [k \in 1..num_dimension |-> IF (k - 1) \in slice_positions THEN slice ELSE 0]

\* itertools.permutations(idx), as the set of tuples it yields
permutations(t) ==
    {[k \in 1..Len(t) |-> t[f[k]]] :
        f \in {g \in [1..Len(t) -> 1..Len(t)] :
                  \A a, b \in 1..Len(t) : a # b => g[a] # g[b]}}

\* the cells of self.performances[index]
indexed(P, index) ==
    {c \in DOMAIN P : \A k \in 1..Len(index) : index[k] = slice \/ c[k] = index[k]}

Minimum(S) == CHOOSE v \in S : \A w \in S : v <= w

\* _take_min(indices)
take_min(P, indices) ==
    Minimum({Minimum({P[c] : c \in indexed(P, index)}) : index \in indices})

\* (None, None)
NoneNone == [found |-> FALSE, min_v |-> 0, i |-> 0]

\* mutant: range(0, d - i + 1), one axis too many sliced
promising_index_wide(d, i) == make_index(d, 0..(d - i))

\* idx = _make_index(d, list(range(0, d-i)))
promising_index(d, i) == make_index(d, 0..(d - i - 1))

\* the passes i, i-1, ..., 1 of `for i in reversed(range(1, d+1))`
RECURSIVE promising_from(_, _, _)
promising_from(P, d, i) ==
    IF i < 1 THEN NoneNone
    ELSE LET min_v == take_min(P, permutations(promising_index(d, i)))
         IN IF min_v # inf
            THEN [found |-> TRUE, min_v |-> min_v, i |-> i]
            ELSE promising_from(P, d, i - 1)

get_most_promising_solution(P) ==
    LET d == Len(ShapeOf(P)) IN promising_from(P, d, d)

VARIABLES
    minimization,   \* self.minimization
    performances,   \* self.performances
    solutions,      \* self.solutions
    call,           \* the latest place_in_mapelites call: its arguments, and
                    \* the target cell as it was before the call
    nplaced,        \* number of place_in_mapelites calls so far
    proposed,       \* per cell, the performances of the challengers so far
    sel_pc,         \* position inside random_selection
    individuals,    \* argument of the running random_selection call
    inds,           \* local list inds
    idxs,           \* local list idxs
    idx,            \* local idx
    promising,      \* the latest result of get_most_promising_solution
    error,          \* the exception propagating out of the latest call, if any
    nfailed,        \* number of place_in_mapelites calls that raised
    feature_dimensions, \* what generate_feature_dimensions returned
    setup,          \* outcome of __init__
    run_pc,         \* position inside run()
    crossover_flag, \* self.crossover_flag
    iterations,     \* self.iterations
    random_solutions,   \* self.random_solutions (bootstrap_individuals)
    stopping_overridden,    \* a subclass overrides stopping_criteria
    nboot,          \* loop variable of generate_initial_population
    it,             \* loop variable i of run()
    ind,            \* local ind of run()
    runs,           \* number of run() calls that reached the end
    iter_places,    \* place_in_mapelites calls in the current iteration
    varied,         \* the variation applied in the current iteration
    checks,         \* stopping_criteria calls of the current run()
    logdir,         \* a function directory given to aggregate_results
    results,        \* the entry aggregate_results computes for it
    measures        \* the values performance_measure can return in run()

vars == <<minimization, performances, solutions, call, nplaced, proposed,
          sel_pc, individuals, inds, idxs, idx, promising, error, nfailed,
          feature_dimensions, setup, run_pc, crossover_flag, iterations,
          random_solutions, stopping_overridden, nboot, it, ind, runs,
          iter_places, varied, checks, logdir, results, measures>>

history == <<call, nplaced, proposed>>
selection == <<sel_pc, individuals, inds, idxs, idx>>
construction == <<feature_dimensions, setup>>
aggregation == <<logdir, results>>
configuration ==
    <<crossover_flag, iterations, random_solutions, stopping_overridden, measures>>
running == <<run_pc, nboot, it, ind, runs, iter_places, varied, checks>>

NoCall ==
    [x |-> <<>>, b |-> <<>>, perf |-> inf, before_perf |-> inf,
     before_x |-> <<>>, again |-> FALSE]

\* get_most_promising_solution has not been called
NotCalled == [called |-> FALSE, found |-> FALSE, min_v |-> 0, i |-> 0]

\* aggregate_results is not in use
NotAggregating ==
    /\ logdir = [plots |-> FALSE, consts |-> <<>>, runs |-> <<>>]
    /\ results = [done |-> FALSE, fes |-> 0, runs |-> 0, f_rate |-> 0]

\* a FeatureDimension object with len(bins) - 1 = n
FeatureDimension(n) == [isFeatureDimension |-> TRUE, nbins |-> n]

\* an object of another class
NotFeatureDimension == [isFeatureDimension |-> FALSE, nbins |-> 0]

\* the object is constructed with the feature dimensions of ft_bins
Constructed ==
    /\ feature_dimensions =
           [kind |-> "list",
            entries |-> [d \in DOMAIN ft_bins |-> FeatureDimension(ft_bins[d])]]
    /\ setup = "ok"

\* run() has not been called
NotRunning ==
    /\ run_pc = "new"
    /\ nboot = 0
    /\ it = 0
    /\ ind = <<>>
    /\ runs = 0
    /\ iter_places = 0
    /\ varied = "none"
    /\ checks = 0

\* a configuration that plays no role outside run()
NoConfiguration ==
    /\ crossover_flag = FALSE
    /\ iterations = 0
    /\ random_solutions = 0
    /\ stopping_overridden = FALSE
    /\ measures = {}

SelectionIdle ==
    /\ sel_pc = "idle"
    /\ individuals = 0
    /\ inds = <<>>
    /\ idxs = <<>>
    /\ idx = <<>>

Init ==
    /\ minimization \in BOOLEAN
    /\ performances = init_performances
    /\ solutions = init_solutions
    /\ call = NoCall
    /\ nplaced = 0
    /\ proposed = [c \in Cells |-> {}]
    /\ SelectionIdle
    /\ promising = NotCalled
    /\ error = "none"
    /\ nfailed = 0
    /\ NotAggregating
    /\ Constructed
    /\ NoConfiguration
    /\ NotRunning

\* place_in_mapelites(x), where map_x_to_b(x) = b and performance_measure(x) = perf
place_in_mapelites(x, b, perf) ==
    /\ performances' = placed_performances(performances, minimization, b, perf)
    /\ solutions' = placed_solutions(solutions, performances, minimization, b, x, perf)
    /\ UNCHANGED minimization

\* the calls that can raise, in the order place_in_mapelites makes them
Stages == {"map_x_to_b", "performance_measure"}

\* place_in_mapelites(x) when map_x_to_b(x) raises, or when map_x_to_b(x) = b
\* and performance_measure(x) raises: the exception leaves the method
place_in_mapelites_raises(x, stage, b) ==
    /\ performances' = performances
    /\ solutions' = unplaced_solutions(solutions, stage, b, x)
    /\ UNCHANGED minimization

\* a caller places one individual; the call is recorded
Place ==
    \E x \in FiniteGenotypes, b \in Cells, perf \in Perfs :
        /\ sel_pc = "idle"
        /\ nplaced + nfailed < MaxPlacements
        /\ place_in_mapelites(x, b, perf)
        /\ call' = [x |-> x, b |-> b, perf |-> perf,
                    before_perf |-> performances[b],
                    before_x |-> solutions[b],
                    again |-> /\ nplaced > 0
                              /\ \A i \in DOMAIN call.before_x : call.before_x[i] # inf
                              /\ call.x = x /\ call.b = b /\ call.perf = perf]
        /\ nplaced' = nplaced + 1
        /\ proposed' = [proposed EXCEPT ![b] = @ \cup {perf}]
        /\ error' = "none"
        /\ UNCHANGED <<selection, promising, nfailed, construction, aggregation, configuration,
                       running>>

\* a caller places one individual and map_x_to_b or performance_measure raises
PlaceRaises ==
    \E x \in FiniteGenotypes, stage \in Stages, b \in Cells :
        /\ sel_pc = "idle"
        /\ nplaced + nfailed < MaxPlacements
        /\ place_in_mapelites_raises(x, stage, b)
        /\ error' = "EvaluationFailure"
        /\ nfailed' = nfailed + 1
        /\ UNCHANGED <<history, selection, promising, construction, aggregation, configuration,
                       running>>

Next == Place \/ PlaceRaises

Spec == Init /\ [][Next]_vars

\* ------------------------------------------- random_selection, stepwise
\* the archive after a bootstrap that placed, for each cell of B, one
\* individual g[c] with performance p[c] (placements into distinct cells)
BootPerfs == {0, inf}

booted_performances(min, B, p) ==
    [c \in Cells |->
        IF c \in B THEN placed_performances(init_performances, min, c, p[c])[c]
        ELSE init_performances[c]]

booted_solutions(min, B, g, p) ==
    [c \in Cells |->
        IF c \in B
        THEN placed_solutions(init_solutions, init_performances, min, c, g[c], p[c])[c]
        ELSE init_solutions[c]]

InitSel ==
    /\ minimization \in BOOLEAN
    /\ \E B \in SUBSET Cells, g \in [Cells -> FiniteGenotypes], p \in [Cells -> BootPerfs] :
        /\ performances = booted_performances(minimization, B, p)
        /\ solutions = booted_solutions(minimization, B, g, p)
        /\ nplaced = Cardinality(B)
        /\ proposed = [c \in Cells |-> IF c \in B THEN {p[c]} ELSE {}]
    /\ call = NoCall
    /\ SelectionIdle
    /\ promising = NotCalled
    /\ error = "none"
    /\ nfailed = 0
    /\ NotAggregating
    /\ Constructed
    /\ NoConfiguration
    /\ NotRunning

\* random_selection(individuals=k) is entered: inds = list(); idxs = list()
random_selection(k) ==
    /\ sel_pc = "idle"
    /\ sel_pc' = "for"
    /\ individuals' = k
    /\ inds' = <<>>
    /\ idxs' = <<>>
    /\ idx' = <<>>
    /\ UNCHANGED <<minimization, performances, solutions, history, promising,
                   error, nfailed, construction, aggregation, configuration, running>>

SelCall == \E k \in 1..MaxIndividuals : random_selection(k)

\* `for _ in range(0, individuals)`: one more pass draws idx, the last one
\* falls through to `return inds`
SelFor ==
    /\ sel_pc = "for"
    /\ IF Len(idxs) < individuals
       THEN /\ idx' \in get_random_index
            /\ sel_pc' = "while"
       ELSE /\ idx' = idx
            /\ sel_pc' = "return"
    /\ UNCHANGED <<minimization, performances, solutions, history,
                   individuals, inds, idxs, promising, error, nfailed,
                   construction, aggregation, configuration, running>>

\* mutant: the selected elite is taken out of the archive
selected_solutions_taken(S, index) ==
    [S EXCEPT ![index] = [i \in DOMAIN S[index] |-> inf]]

\* self.solutions after inds.append(self.solutions[idx]): the cell is read
selected_solutions(S, index) == S

\* one evaluation of the while condition: draw again, or leave the loop and
\* append idx and self.solutions[idx]
SelWhile ==
    /\ sel_pc = "while"
    /\ IF resample(solutions, idxs, idx)
       THEN /\ idx' \in get_random_index
            /\ UNCHANGED <<sel_pc, inds, idxs>>
       ELSE /\ idxs' = Append(idxs, idx)
            /\ inds' = Append(inds, solutions[idx])
            /\ sel_pc' = "for"
            /\ idx' = idx
    /\ solutions' = selected_solutions(solutions, idx)
    /\ UNCHANGED <<minimization, performances, history, individuals,
                   promising, error, nfailed, construction, aggregation, configuration, running>>

\* `return inds`: the caller has the list, the locals are gone
SelReturn ==
    /\ sel_pc = "return"
    /\ sel_pc' = "idle"
    /\ individuals' = 0
    /\ inds' = <<>>
    /\ idxs' = <<>>
    /\ idx' = <<>>
    /\ UNCHANGED <<minimization, performances, solutions, history, promising,
                   error, nfailed, construction, aggregation, configuration, running>>

SelStep == SelFor \/ SelWhile \/ SelReturn

NextSel == SelCall \/ SelFor \/ SelWhile \/ SelReturn

SpecSel == InitSel /\ [][NextSel]_vars

\* _get_random_index returns c
Draw(c) == SelStep /\ sel_pc' = "while" /\ idx' = c

\* the interpreter keeps executing a call that has been entered, and the
\* random index sampler is fair: while sampling goes on, every index tuple
\* is drawn again and again
FairSpecSel ==
    /\ SpecSel
    /\ WF_vars(SelStep)
    /\ \A c \in Cells : SF_vars(Draw(c))

\* ------------------------------- get_most_promising_solution on archives
\* shapes and performances of the archives the function is applied to
PromisingShapes == {<<3, 2>>, <<2, 2, 2>>}

PromisingPerfs == {0, 1, inf}

\* an archive of one of the shapes, as placements of finite genotypes leave
\* it: under maximization no cell holds a finite performance
InitPromising ==
    /\ minimization \in BOOLEAN
    /\ \E shape \in PromisingShapes :
         /\ performances \in [CellsOf(shape) -> PromisingPerfs]
         /\ minimization \/ \A c \in CellsOf(shape) : performances[c] = inf
         /\ solutions = [c \in CellsOf(shape) |->
                            IF performances[c] = inf
                            THEN [i \in 1..optimization_function_dimensions |-> inf]
                            ELSE <<0, 1>>]
         /\ proposed = [c \in CellsOf(shape) |->
                            IF performances[c] = inf THEN {} ELSE {performances[c]}]
    /\ nplaced = Cardinality({c \in DOMAIN performances : performances[c] # inf})
    /\ call = NoCall
    /\ SelectionIdle
    /\ promising = NotCalled
    /\ error = "none"
    /\ nfailed = 0
    /\ NotAggregating
    /\ Constructed
    /\ NoConfiguration
    /\ NotRunning

\* best_value, solved_constraints = self.get_most_promising_solution()
MostPromising ==
    /\ ~promising.called
    /\ promising' = [called |-> TRUE] @@ get_most_promising_solution(performances)
    /\ UNCHANGED <<minimization, performances, solutions, history, selection,
                   error, nfailed, construction, aggregation, configuration, running>>

NextPromising == MostPromising

SpecPromising == InitPromising /\ [][NextPromising]_vars

\* ------------------------------------------------------------------ run
\* the performances performance_measure can return during run(): a problem
\* with finite performances only, and one that can also return +inf
Problems == {{0}, {0, inf}}

\* a constructed object with its configuration; run() has not been called
InitRun ==
    /\ minimization \in BOOLEAN
    /\ performances = init_performances
    /\ solutions = init_solutions
    /\ call = NoCall
    /\ nplaced = 0
    /\ proposed = [c \in Cells |-> {}]
    /\ SelectionIdle
    /\ promising = NotCalled
    /\ error = "none"
    /\ nfailed = 0
    /\ NotAggregating
    /\ Constructed
    /\ crossover_flag \in BOOLEAN
    /\ iterations \in 0..MaxIterations
    /\ random_solutions \in 0..MaxBootstrap
    /\ stopping_overridden \in BOOLEAN
    /\ measures \in Problems
    /\ NotRunning

\* run() is called, on a new object or on one whose run() has returned: the
\* locals of the call are new, and generate_initial_population is entered
RunCall ==
    /\ run_pc \in {"new", "done"}
    /\ runs < MaxRuns
    /\ run_pc' = "bootstrapping"
    /\ nboot' = 0
    /\ it' = 0
    /\ ind' = <<>>
    /\ iter_places' = 0
    /\ varied' = "none"
    /\ checks' = 0
    /\ error' = "none"
    /\ promising' = NotCalled
    /\ UNCHANGED <<minimization, performances, solutions, history, selection,
                   nfailed, construction, aggregation, configuration, runs>>

\* one pass of generate_initial_population: a random solution is placed
RunBootstrapPlace ==
    \E x \in FiniteGenotypes, b \in Cells, perf \in measures :
        /\ run_pc = "bootstrapping"
        /\ nboot < random_solutions
        /\ place_in_mapelites(x, b, perf)
        /\ nplaced' = nplaced + 1
        /\ nboot' = nboot + 1
        /\ UNCHANGED <<call, proposed, selection, promising, error, nfailed,
                       construction, aggregation, configuration, run_pc, it, ind, runs,
                       iter_places, varied, checks>>

\* one pass of generate_initial_population: the placement raises, and the
\* exception leaves generate_initial_population and run()
RunBootstrapRaises ==
    \E x \in FiniteGenotypes, stage \in Stages, b \in Cells :
        /\ run_pc = "bootstrapping"
        /\ nboot < random_solutions
        /\ place_in_mapelites_raises(x, stage, b)
        /\ nfailed' = nfailed + 1
        /\ error' = "EvaluationFailure"
        /\ run_pc' = "aborted"
        /\ UNCHANGED <<history, selection, promising, construction, aggregation,
                       configuration, nboot, it, ind, runs, iter_places,
                       varied, checks>>

\* generate_initial_population returns; the loop over range(0, iterations)
\* starts
RunBootstrapDone ==
    /\ run_pc = "bootstrapping"
    /\ nboot >= random_solutions
    /\ run_pc' = "iterating"
    /\ it' = 0
    /\ UNCHANGED <<minimization, performances, solutions, history, selection,
                   promising, error, nfailed, construction, aggregation, configuration,
                   nboot, ind, runs, iter_places, varied, checks>>

\* mutant: the default stopping_criteria can return True
stopping_criteria_any == BOOLEAN

\* what stopping_criteria() can return: False, unless a subclass overrides it
stopping_criteria == IF stopping_overridden THEN BOOLEAN ELSE {FALSE}

\* the head of the loop: the range is exhausted, or stopping_criteria()
\* breaks the loop, or the iteration goes on to select
RunIterate ==
    /\ run_pc = "iterating"
    /\ IF it < iterations
       THEN \E stop \in stopping_criteria :
                /\ checks' = checks + 1
                /\ run_pc' = IF stop THEN "finalizing" ELSE "selecting"
       ELSE /\ run_pc' = "finalizing"
            /\ checks' = checks
    /\ iter_places' = 0
    /\ varied' = "none"
    /\ UNCHANGED <<minimization, performances, solutions, history, selection,
                   promising, error, nfailed, construction, aggregation, configuration,
                   nboot, it, ind, runs>>

\* np.prod(self.performances.shape) - np.sum(np.isinf(self.performances))
initialized_count(P) ==
    Cardinality(DOMAIN P) - Cardinality({c \in DOMAIN P : Abs(P[c]) = inf})

\* mutant: the crossover branch is taken whenever crossover_flag is set
crossover_branch_flag_only(flag, P) == flag

\* the condition of the branch that selects two individuals
crossover_branch(flag, P) == flag /\ initialized_count(P) > 1

\* random_selection is called with two individuals or with one
RunSelect ==
    /\ run_pc = "selecting"
    /\ IF crossover_branch(crossover_flag, performances)
       THEN random_selection(2)
       ELSE random_selection(1)

\* mutant: the mutation-only branch ends the iteration without placing
RunVary_unplaced ==
    /\ run_pc = "selecting"
    /\ sel_pc = "return"
    /\ ind' = IF individuals = 2 THEN inds[1] ELSE <<>>
    /\ varied' = IF individuals = 2 THEN "crossover+mutation" ELSE "mutation"
    /\ run_pc' = IF individuals = 2 THEN "placing" ELSE "iterating"
    /\ it' = IF individuals = 2 THEN it ELSE it + 1
    /\ sel_pc' = "idle"
    /\ individuals' = 0
    /\ inds' = <<>>
    /\ idxs' = <<>>
    /\ idx' = <<>>
    /\ UNCHANGED <<minimization, performances, solutions, history, promising,
                   error, nfailed, construction, aggregation, configuration, nboot,
                   runs, iter_places, checks>>

\* random_selection has returned: crossover_op and mutation_op, or only
\* mutation_op, produce the child ind
RunVary ==
    /\ run_pc = "selecting"
    /\ sel_pc = "return"
    /\ ind' \in FiniteGenotypes
    /\ varied' = IF individuals = 2 THEN "crossover+mutation" ELSE "mutation"
    /\ run_pc' = "placing"
    /\ sel_pc' = "idle"
    /\ individuals' = 0
    /\ inds' = <<>>
    /\ idxs' = <<>>
    /\ idx' = <<>>
    /\ UNCHANGED <<minimization, performances, solutions, history, promising,
                   error, nfailed, construction, aggregation, configuration, nboot, it,
                   runs, iter_places, checks>>

\* self.place_in_mapelites(ind, pbar=pbar) ends the iteration
RunPlace ==
    \E b \in Cells, perf \in measures :
        /\ run_pc = "placing"
        /\ place_in_mapelites(ind, b, perf)
        /\ nplaced' = nplaced + 1
        /\ iter_places' = iter_places + 1
        /\ it' = it + 1
        /\ ind' = <<>>
        /\ run_pc' = "iterating"
        /\ UNCHANGED <<call, proposed, selection, promising, error, nfailed,
                       construction, aggregation, configuration, nboot, runs, varied,
                       checks>>

\* the placement of the child raises: nothing in run() catches the exception
RunPlaceRaises ==
    \E stage \in Stages, b \in Cells :
        /\ run_pc = "placing"
        /\ place_in_mapelites_raises(ind, stage, b)
        /\ nfailed' = nfailed + 1
        /\ iter_places' = iter_places + 1
        /\ error' = "EvaluationFailure"
        /\ run_pc' = "aborted"
        /\ UNCHANGED <<history, selection, promising, construction, aggregation,
                       configuration, nboot, it, ind, runs, varied, checks>>

\* save_logs(): the most promising solution is computed from the archive and
\* the arrays are saved; then the map is plotted and run() returns
save_logs ==
    /\ promising' = [called |-> TRUE] @@ get_most_promising_solution(performances)
    /\ UNCHANGED <<minimization, performances, solutions>>

RunFinalize ==
    /\ run_pc = "finalizing"
    /\ save_logs
    /\ run_pc' = "done"
    /\ runs' = runs + 1
    /\ UNCHANGED <<history, selection, error, nfailed, construction, aggregation,
                   configuration, nboot, it, ind, iter_places, varied, checks>>

NextRun ==
    \/ RunCall
    \/ RunBootstrapPlace
    \/ RunBootstrapRaises
    \/ RunBootstrapDone
    \/ RunIterate
    \/ RunSelect
    \/ SelFor
    \/ SelWhile
    \/ RunVary
    \/ RunPlace
    \/ RunPlaceRaises
    \/ RunFinalize

SpecRun == InitRun /\ [][NextRun]_vars

\* the interpreter keeps executing run(), and the random index sampler is
\* fair: while sampling goes on, every index tuple is drawn again and again
FairSpecRun ==
    /\ SpecRun
    /\ WF_vars(NextRun)
    /\ \A c \in Cells : SF_vars(Draw(c))

\* ------------------------------------------------------------- __init__
\* what generate_feature_dimensions can return: a list, a tuple or another
\* object, holding FeatureDimension objects and objects of other classes
Entries == {FeatureDimension(1), FeatureDimension(2), NotFeatureDimension}

FeatureDimensionsInputs ==
    [kind : {"list", "tuple", "other"},
     entries : UNION {[1..n -> Entries] : n \in 0..MaxDimensions}]

\* __init__ has reached the call of generate_feature_dimensions; the arrays
\* do not exist yet
InitSetup ==
    /\ minimization \in BOOLEAN
    /\ performances = <<>>
    /\ solutions = <<>>
    /\ call = NoCall
    /\ nplaced = 0
    /\ proposed = [c \in Cells |-> {}]
    /\ SelectionIdle
    /\ promising = NotCalled
    /\ error = "none"
    /\ nfailed = 0
    /\ NotAggregating
    /\ feature_dimensions \in FeatureDimensionsInputs
    /\ setup = "pending"
    /\ NoConfiguration
    /\ NotRunning

\* isinstance(feature_dimensions, (list, tuple)) and
\* all(isinstance(ft, FeatureDimension) for ft in feature_dimensions)
feature_dimensions_accepted(fd) ==
    /\ fd.kind \in {"list", "tuple"}
    /\ \A i \in DOMAIN fd.entries : fd.entries[i].isFeatureDimension

\* [len(ft.bins) - 1 for ft in self.feature_dimensions]
bins_of(fd) == [i \in DOMAIN fd.entries |-> fd.entries[i].nbins]

\* index tuples of np.full(shape, ...): the empty shape gives an array of
\* zero dimensions with one element
full_index(shape) == IF shape = <<>> THEN {<<>>} ELSE CellsOf(shape)

\* the check of the feature dimensions raises, or the arrays are allocated
Setup ==
    /\ setup = "pending"
    /\ IF feature_dimensions_accepted(feature_dimensions)
       THEN /\ setup' = "ok"
            /\ error' = "none"
            /\ performances' =
                   [c \in full_index(bins_of(feature_dimensions)) |-> inf]
            /\ solutions' =
                   [c \in full_index(bins_of(feature_dimensions)) |->
                       [i \in 1..optimization_function_dimensions |-> inf]]
       ELSE /\ setup' = "raised"
            /\ error' = "Exception"
            /\ UNCHANGED <<performances, solutions>>
    /\ UNCHANGED <<minimization, history, selection, promising, nfailed,
                   feature_dimensions, aggregation, configuration, running>>

NextSetup == Setup

SpecSetup == InitSetup /\ [][NextSetup]_vars

\* ---------------------------------------------------- aggregate_results
\* keys of function_class.constraints(None), by their first letter
ConstraintKeys == {<<"g", "g">>, <<"g", "h">>, <<"h", "h">>}

\* the performances.npy a run directory holds
SavedPerformances == [CellsOf(ft_bins) -> {0, inf}]

\* a function directory: run directories, and a "plots" directory or none
FunctionDirs ==
    [plots : BOOLEAN,
     consts : ConstraintKeys,
     runs : UNION {[1..n -> SavedPerformances] : n \in 1..MaxRunDirs}]

InitAggregate ==
    /\ minimization = TRUE
    /\ performances = init_performances
    /\ solutions = init_solutions
    /\ call = NoCall
    /\ nplaced = 0
    /\ proposed = [c \in Cells |-> {}]
    /\ SelectionIdle
    /\ promising = NotCalled
    /\ error = "none"
    /\ nfailed = 0
    /\ logdir \in FunctionDirs
    /\ results = [done |-> FALSE, fes |-> 0, runs |-> 0, f_rate |-> 0]
    /\ Constructed
    /\ NoConfiguration
    /\ NotRunning

\* len(list(listdir_nohidden(logdir / c))): every entry of the directory
listed_entries(dir) == Len(dir.runs) + (IF dir.plots THEN 1 ELSE 0)

\* the products of [0, 1] with the positions of the g constraints set to 0,
\* without duplicates
feasible_indexes(consts) ==
    {f \in [DOMAIN consts -> {0, 1}] :
        \A k \in DOMAIN consts : consts[k] = "g" => f[k] = 0}

\* some p[tuple(f_idx)] != np.inf
feasible_solution(p, consts) ==
    \E f_idx \in feasible_indexes(consts) : p[f_idx] # inf

\* fes after the loop over the entries that are not "plots"
feasible_runs(dir) ==
    Cardinality({r \in DOMAIN dir.runs :
                     feasible_solution(dir.runs[r], dir.consts)})

\* round(n / d, 2) in hundredths, a tie going to the even hundredth
round2(n, d) ==
    LET q == (100 * n) \div d
        rest == (100 * n) % d
    IN IF 2 * rest > d \/ (2 * rest = d /\ q % 2 = 1) THEN q + 1 ELSE q

\* one pass of the loop of main over the function directories
Aggregate ==
    /\ ~results.done
    /\ logdir.runs # <<>>
    /\ results' = [done |-> TRUE,
                   fes |-> feasible_runs(logdir),
                   runs |-> listed_entries(logdir),
                   f_rate |-> round2(feasible_runs(logdir),
                                     listed_entries(logdir))]
    /\ UNCHANGED <<minimization, performances, solutions, history, selection,
                   promising, error, nfailed, construction, logdir,
                   configuration, running>>

NextAggregate == Aggregate

SpecAggregate == InitAggregate /\ [][NextAggregate]_vars

\* ------------------------------------------------------------ properties
\* the step is a place_in_mapelites call (recorded in call')
PlaceStep == nplaced' = nplaced + 1

\* every component of the genotype is +inf or -inf
AllInfinite(g) == \A i \in DOMAIN g : Abs(g[i]) = inf

Initialized == {c \in Cells : ~is_not_initialized(solutions, c)}

\* C1: under minimization a placement overwrites the target cell exactly
\* when the challenger's performance is strictly less than the stored one;
\* otherwise (a tie included) the incumbent genotype and performance stay.
C1_MinStrictlyLess ==
    (nplaced > 0 /\ minimization) =>
        IF call.perf < call.before_perf
        THEN performances[call.b] = call.perf /\ solutions[call.b] = call.x
        ELSE /\ performances[call.b] = call.before_perf
             /\ solutions[call.b] = call.before_x

\* C1 witness: a tie under minimization, against an incumbent with another
\* genotype, left the incumbent in the cell
C1_Witness ==
    /\ minimization
    /\ nplaced > 1
    /\ call.perf = call.before_perf
    /\ call.perf \in FinitePerfs
    /\ call.x # call.before_x
    /\ solutions[call.b] = call.before_x

\* C2: under maximization a placement overwrites the target cell exactly
\* when the challenger's performance is greater than or equal to the stored
\* one; on a tie the challenger's genotype replaces the incumbent's.
C2_MaxGreaterOrEqual ==
    (nplaced > 0 /\ ~minimization) =>
        IF call.perf >= call.before_perf
        THEN performances[call.b] = call.perf /\ solutions[call.b] = call.x
        ELSE /\ performances[call.b] = call.before_perf
             /\ solutions[call.b] = call.before_x

\* C2 witness: a tie under maximization replaced an incumbent genotype by
\* the challenger's
C2_Witness ==
    /\ ~minimization
    /\ nplaced > 1
    /\ call.perf = call.before_perf
    /\ ~AllInfinite(call.before_x)
    /\ call.x # call.before_x
    /\ solutions[call.b] = call.x

\* C3: in both directions, a placement with a finite performance into an
\* empty cell is accepted: the cell holds the challenger afterwards.
C3_EmptyCellAccepts ==
    (/\ nplaced > 0
     /\ call.perf \in FinitePerfs
     /\ call.before_perf = inf
     /\ AllInfinite(call.before_x))
    => (performances[call.b] = call.perf /\ solutions[call.b] = call.x)

\* the maximum / minimum of a non-empty set of performances
BestOf(min, S) ==
    IF min THEN CHOOSE v \in S : \A w \in S : v <= w
    ELSE CHOOSE v \in S : \A w \in S : v >= w

\* C4: every cell targeted by at least one challenger stores the best
\* performance among the challengers proposed for it (minimum under
\* minimization, maximum under maximization).
C4_CellHoldsBest ==
    \A c \in Cells :
        proposed[c] # {} => performances[c] = BestOf(minimization, proposed[c])

\* C5: from one step to the next, no cell's performance increases under
\* minimization and none decreases under maximization.
C5_Monotone ==
    [][\A c \in Cells :
         IF minimization THEN performances'[c] <= performances[c]
         ELSE performances'[c] >= performances[c]]_vars

\* C5 witness: under minimization a finite incumbent was replaced by a
\* strictly better challenger
C5_Witness ==
    /\ minimization
    /\ nplaced > 1
    /\ call.before_perf \in FinitePerfs
    /\ call.perf < call.before_perf
    /\ performances[call.b] = call.perf

\* C6: placing a pair into an occupied cell and placing the same pair again
\* leaves the archive after the second call as it was after the first.
C6_Idempotent ==
    [][(PlaceStep /\ call'.again) =>
         (performances' = performances /\ solutions' = solutions)]_vars

\* C6 witness: the same pair has just been placed a second time into a cell
\* that was occupied before the first of the two calls
C6_Witness ==
    /\ call.again
    /\ nplaced > 2
    /\ ~AllInfinite(call.before_x)

\* C7: a placement at b leaves every other cell unchanged, and at b either
\* both genotype and performance become the challenger's or both stay.
C7_Frame ==
    [][PlaceStep =>
         /\ \A c \in Cells \ {call'.b} :
                performances'[c] = performances[c] /\ solutions'[c] = solutions[c]
         /\ \/ /\ performances'[call'.b] = call'.perf
               /\ solutions'[call'.b] = call'.x
            \/ /\ performances'[call'.b] = performances[call'.b]
               /\ solutions'[call'.b] = solutions[call'.b]]_vars

\* C7 witness: a worse challenger with another genotype was rejected at an
\* occupied cell while another cell is occupied too
C7_Witness ==
    /\ minimization
    /\ nplaced > 2
    /\ call.before_perf \in FinitePerfs
    /\ call.perf > call.before_perf
    /\ call.x # call.before_x
    /\ performances[call.b] = call.before_perf
    /\ solutions[call.b] = call.before_x
    /\ \E c \in Cells \ {call.b} : performances[c] \in FinitePerfs

\* C8: the archive starts with every performance +inf and every genotype
\* all +inf; in every state a cell counts as empty for selection exactly
\* when every component of its genotype is infinite, and no genotype is
\* infinite in some components only.
C8_Emptiness ==
    /\ nplaced = 0 =>
         \A c \in Cells :
            /\ performances[c] = inf
            /\ \A i \in DOMAIN solutions[c] : solutions[c][i] = inf
    /\ \A c \in Cells :
         /\ is_not_initialized(solutions, c) <=> AllInfinite(solutions[c])
         /\ AllInfinite(solutions[c]) \/ \A i \in DOMAIN solutions[c] : Abs(solutions[c][i]) # inf

\* C8 witness: after placements, one cell is occupied and another is empty
C8_Witness ==
    /\ nplaced > 1
    /\ \E c, d \in Cells :
         /\ ~is_not_initialized(solutions, c)
         /\ is_not_initialized(solutions, d)
         /\ AllInfinite(solutions[d])

\* C9: when random_selection(k) returns, inds holds exactly k genotypes,
\* each the one stored in an initialized cell, and the k cells are distinct.
C9_SelectionResult ==
    sel_pc = "return" =>
        /\ Len(inds) = individuals
        /\ Len(idxs) = individuals
        /\ \A j \in 1..Len(inds) :
             /\ idxs[j] \in Initialized
             /\ inds[j] = solutions[idxs[j]]
        /\ \A j, k \in 1..Len(idxs) : j # k => idxs[j] # idxs[k]

\* C9 witness: random_selection(2) is returning two genotypes
C9_Witness ==
    /\ sel_pc = "return"
    /\ individuals = 2
    /\ Len(inds) = 2

\* the running call asks for more individuals than there are initialized cells
Starved == sel_pc # "idle" /\ individuals > Cardinality(Initialized)

\* C10: random_selection(k) on an archive with fewer than k initialized
\* cells does not hang: it stops after finitely many sampling attempts.
C10_StarvedSelectionStops == Starved ~> (sel_pc = "idle")

\* the running call asks for no more individuals than there are initialized cells
Satisfiable == sel_pc # "idle" /\ individuals <= Cardinality(Initialized)

\* C11: with at least k initialized cells and a fair index sampler,
\* random_selection(k) eventually returns; with exactly k initialized cells
\* it returns the genotypes of all k of them, each once.
C11_SelectionReturns ==
    /\ Satisfiable ~> (sel_pc = "return")
    /\ [](sel_pc = "return" /\ individuals = Cardinality(Initialized) =>
            /\ {idxs[j] : j \in 1..Len(idxs)} = Initialized
            /\ Len(idxs) = Cardinality(Initialized)
            /\ \A j \in 1..Len(inds) : inds[j] = solutions[idxs[j]])

\* C11 witness: random_selection(2) is returning from an archive with
\* exactly two initialized cells
C11_Witness ==
    /\ sel_pc = "return"
    /\ individuals = 2
    /\ Cardinality(Initialized) = 2
    /\ Len(inds) = 2

\* number of coordinates of the cell at bin 0 (constraints it satisfies);
\* the code treats every feature dimension as a constraint dimension
Zeros(c) == Cardinality({d \in DOMAIN c : c[d] = 0})

\* cells holding a finite performance
Finite == {c \in DOMAIN performances : performances[c] # inf}

\* the finite cells satisfying the most constraints
Feasiblest == {c \in Finite : \A e \in Finite : Zeros(e) <= Zeros(c)}

\* C12: get_most_promising_solution returns the minimum performance among
\* the initialized cells with the greatest number of coordinates at bin 0,
\* for every archive content.
C12_MostPromisingValue ==
    (promising.called /\ Finite # {}) =>
        /\ promising.found
        /\ promising.min_v = Minimum({performances[c] : c \in Feasiblest})

\* C13: the returned `solved` count is the number of coordinates at bin 0
\* of the cell the returned performance was read from, never more; with
\* (2, 0) the only finite cell the result is its performance with solved 1.
C13_SolvedCount ==
    (promising.called /\ promising.found) =>
        /\ \E c \in Finite :
             performances[c] = promising.min_v /\ Zeros(c) = promising.i
        /\ \A c \in Finite :
             (performances[c] = promising.min_v /\ Zeros(c) >= promising.i)
                => Zeros(c) = promising.i
        /\ Finite = {<<2, 0>>} =>
             promising.min_v = performances[<<2, 0>>] /\ promising.i = 1

\* C13 witness: the function has returned for an archive whose only finite
\* cell is (2, 0)
C13_Witness ==
    /\ promising.called
    /\ promising.found
    /\ Finite = {<<2, 0>>}

\* C14: get_most_promising_solution returns (None, None) exactly when no
\* cell is initialized.
C14_NoneIffEmpty ==
    promising.called => (~promising.found <=> Finite = {})

\* C17: when map_x_to_b or performance_measure raises during a placement,
\* the archive is exactly as before the call and the error reaches the
\* caller.
C17_RaisingPlacementLeavesArchive ==
    [][nfailed' = nfailed + 1 =>
         /\ performances' = performances
         /\ solutions' = solutions
         /\ error' = "EvaluationFailure"]_vars

\* C17 witness: a placement has just raised on an archive with an occupied
\* cell
C17_Witness ==
    /\ nfailed > 0
    /\ error = "EvaluationFailure"
    /\ Initialized # {}

\* C15: every iteration of the main loop that passes the stopping check
\* makes exactly one placement attempt, in the crossover branch and in the
\* mutation-only branch: never more than one attempt is counted in an
\* iteration, the attempt is made on the varied child, and the iteration is
\* left (to the next one, or by the exception of the attempt) only by its
\* first attempt.
C15_OnePlacementPerIteration ==
    [][/\ iter_places' \in {0, 1}
       /\ iter_places' > iter_places => run_pc = "placing" /\ varied # "none"
       /\ (run_pc \in {"selecting", "placing"} /\
           run_pc' \notin {"selecting", "placing"}) =>
              iter_places = 0 /\ iter_places' = 1]_vars

\* C15 witness: an iteration of the crossover branch has ended with its one
\* placement, after an earlier iteration
C15_Witness ==
    /\ run_pc = "iterating"
    /\ it > 1
    /\ iter_places = 1
    /\ varied = "crossover+mutation"

\* C16: once run() has reached Done the object cannot be used for another
\* run: a later call of run() does not bootstrap, select or place, and does
\* not change the archive.
C16_DoneIsFinal ==
    [][runs > 0 =>
         /\ performances' = performances
         /\ solutions' = solutions
         /\ nplaced' = nplaced
         /\ sel_pc' = sel_pc]_vars

\* C18: an evaluation failure during an iteration of run() is recoverable:
\* the failing individual is skipped and the loop goes on to the next
\* iteration.
C18_FailureIsSkipped ==
    [][(run_pc = "placing" /\ nfailed' = nfailed + 1) =>
           run_pc' = "iterating" /\ it' = it + 1]_vars

\* C20: the archive is written only by the placement: the steps of
\* random_selection and the finalization (get_most_promising_solution and
\* save_logs) leave the genotype and the performance of every cell
\* unchanged.
C20_OnlyPlacementWrites ==
    [][(sel_pc # "idle" \/ sel_pc' # "idle" \/ run_pc = "finalizing") =>
           performances' = performances /\ solutions' = solutions]_vars

\* C20 witness: run() has selected from and finalized an archive with an
\* occupied cell, and the most promising solution has been computed
C20_Witness ==
    /\ run_pc = "done"
    /\ it > 0
    /\ promising.called
    /\ Initialized # {}

\* C19: when generate_feature_dimensions returns zero dimensions (an empty
\* list or tuple) or a collection with an entry that is not a
\* FeatureDimension, construction fails with an error and no archive is
\* allocated.
C19_BadDimensionsFailSetup ==
    (/\ setup # "pending"
     /\ \/ feature_dimensions.entries = <<>>
        \/ \E i \in DOMAIN feature_dimensions.entries :
               ~feature_dimensions.entries[i].isFeatureDimension)
        => (setup = "raised" /\ error = "Exception" /\ performances = <<>>)

\* C21: the feasibility rate reported for a function directory is the number
\* of runs with at least one initialized feasible cell divided by the number
\* of runs aggregated; an entry that is not a run, such as "plots", counts
\* in neither.
C21_FeasibilityRate ==
    results.done =>
        results.f_rate = round2(feasible_runs(logdir), Len(logdir.runs))

\* the problem's performances are finite: +inf marks an empty cell and is
\* never the performance of an individual
FinitePerformances == inf \notin measures

\* the variation the claims expect of an iteration that starts now
ExpectedParents == IF crossover_flag /\ Cardinality(Initialized) > 1 THEN 2 ELSE 1

C23_StoppingHook ==
    [][/\ (run_pc = "iterating" /\ run_pc' = "selecting") =>
              checks' = checks + 1 /\ checks' = it + 1
       /\ run_pc' \in {"selecting", "placing"} => checks' = it' + 1
       /\ (run_pc = "iterating" /\ run_pc' = "finalizing" /\ it < iterations) =>
              stopping_overridden /\ checks' = it + 1
       /\ run_pc = "finalizing" =>
              /\ run_pc' = "done"
              /\ sel_pc' = "idle"
              /\ nplaced' = nplaced
              /\ nfailed' = nfailed
       /\ (run_pc' \in {"finalizing", "done"} /\ ~stopping_overridden) =>
              it' = iterations /\ checks' = iterations]_vars

\* C23 witness: an overridden hook has stopped a run after its first
\* iteration and before its second, and the run has finalized
C23_Witness ==
    /\ run_pc = "done"
    /\ stopping_overridden
    /\ it = 1
    /\ iterations > 1
    /\ checks = 2

\* C24: with finite genotypes and finite performances, in every reachable
\* state the number of cells the crossover guard counts as initialized
\* (stored performance not infinite) equals the number of cells the
\* genotype test of random_selection regards as initialized; so whenever the
\* crossover branch is taken, random_selection(2) has two eligible cells.
C24_GuardCountsEligibleCells ==
    FinitePerformances =>
        /\ initialized_count(performances) = Cardinality(Initialized)
        /\ (run_pc = "selecting" /\ individuals = 2) =>
               Cardinality(Initialized) >= 2

\* C24 witness: the crossover branch of a finite problem is selecting two
\* parents
C24_Witness ==
    /\ FinitePerformances
    /\ run_pc = "selecting"
    /\ sel_pc = "while"
    /\ individuals = 2
    /\ Len(idxs) = 1
    /\ initialized_count(performances) = 2

\* a run() that the claims about termination cover has been entered:
\* at least one bootstrap individual, at least one iteration, finite
\* performances
RunStarted ==
    /\ run_pc = "bootstrapping"
    /\ random_solutions >= 1
    /\ iterations >= 1
    /\ FinitePerformances

\* C25: with bootstrap_individuals >= 1, iterations >= 1, finite
\* performances and a fair index sampler, in either optimization direction,
\* a run() in which no evaluation raises eventually reaches Done.
C25_RunReachesDone == RunStarted ~> (run_pc = "done" \/ error # "none")

====
